---- MODULE Spec2Model ----
(***************************************************************************)
(* A model of the order-execution engine of the backtester:                *)
(* Broker (src/src/broker.rs), its orders and tickers (src/src/types.rs)   *)
(* and the backtest loop (src/src/backtest.rs).                            *)
(*                                                                         *)
(* Numbers.  The code computes in f32.  A value is modelled as a pair      *)
(* <<n, d>>: the exact rational n/d in lowest terms when d > 0, and the    *)
(* IEEE specials when d = 0 (<<0,0>> NaN, <<1,0>> +inf, <<-1,0>> -inf).    *)
(* Rounding is not modelled; every zero is the positive zero that an       *)
(* exact cancellation produces.                                            *)
(***************************************************************************)
EXTENDS Integers, Sequences, FiniteSets, TLC

\* ------------------------------------------------------------------ numbers

Abs(n) == IF n < 0 THEN -n ELSE n

Sign(n) == IF n < 0 THEN -1 ELSE IF n > 0 THEN 1 ELSE 0

RECURSIVE GCD(_, _)
GCD(a, b) == IF b = 0 THEN a ELSE GCD(b, a % b)

\* n/d in lowest terms, d # 0
Norm(n, d) ==
    LET g == GCD(Abs(n), Abs(d))
        s == IF d < 0 THEN -1 ELSE 1
    IN  <<(s * n) \div g, Abs(d) \div g>>

R(n) == <<n, 1>>

NaN == <<0, 0>>

Inf(s) == <<s, 0>>

IsNaN(x) == x = NaN

IsFinite(x) == x[2] # 0

FNeg(x) == <<-x[1], x[2]>>

FAbs(x) == <<Abs(x[1]), x[2]>>

FAdd(x, y) ==
    IF IsNaN(x) \/ IsNaN(y) THEN NaN
    ELSE IF ~IsFinite(x) /\ ~IsFinite(y) THEN (IF x = y THEN x ELSE NaN)
    ELSE IF ~IsFinite(x) THEN x
    ELSE IF ~IsFinite(y) THEN y
    ELSE LET g == GCD(x[2], y[2])
             l == (x[2] \div g) * y[2]
         IN  Norm(x[1] * (l \div x[2]) + y[1] * (l \div y[2]), l)

FSub(x, y) == FAdd(x, FNeg(y))

FMul(x, y) ==
    IF IsNaN(x) \/ IsNaN(y) THEN NaN
    ELSE IF ~IsFinite(x) \/ ~IsFinite(y)
         THEN (IF x[1] = 0 \/ y[1] = 0 THEN NaN ELSE Inf(Sign(x[1]) * Sign(y[1])))
    ELSE LET g1 == GCD(Abs(x[1]), y[2])
             g2 == GCD(Abs(y[1]), x[2])
         IN  Norm((x[1] \div g1) * (y[1] \div g2), (x[2] \div g2) * (y[2] \div g1))

FDiv(x, y) ==
    IF IsNaN(x) \/ IsNaN(y) THEN NaN
    ELSE IF ~IsFinite(x)
         THEN (IF ~IsFinite(y) THEN NaN
               ELSE Inf(Sign(x[1]) * (IF y[1] < 0 THEN -1 ELSE 1)))
    ELSE IF ~IsFinite(y) THEN R(0)
    ELSE IF y[1] = 0 THEN (IF x[1] = 0 THEN NaN ELSE Inf(Sign(x[1])))
    ELSE LET g1 == GCD(Abs(x[1]), Abs(y[1]))
             g2 == GCD(x[2], y[2])
         IN  Norm((x[1] \div g1) * (y[2] \div g2), (x[2] \div g2) * (y[1] \div g1))

\* comparisons of f32: false as soon as an operand is NaN
FLt(x, y) ==
    IF IsNaN(x) \/ IsNaN(y) THEN FALSE
    ELSE IF ~IsFinite(x) \/ ~IsFinite(y)
         THEN (IF ~IsFinite(x) /\ ~IsFinite(y) THEN x[1] < y[1]
               ELSE IF ~IsFinite(x) THEN x[1] < 0
               ELSE y[1] > 0)
    ELSE LET g == GCD(x[2], y[2])
         IN  x[1] * (y[2] \div g) < y[1] * (x[2] \div g)

FGt(x, y) == FLt(y, x)

FLe(x, y) == ~IsNaN(x) /\ ~IsNaN(y) /\ ~FLt(y, x)

FGe(x, y) == FLe(y, x)

\* ------------------------------------------------------------------ types

\* std::f32::EPSILON = 2^-23, the threshold under which a position is dropped
EPSILON == <<1, 8388608>>

\* Option<T>: None is the empty sequence, Some(v) the sequence <<v>>
None == <<>>

Some(v) == <<v>>

\* enum OrderType: a variant is a tuple of its tag and its prices
Market == <<"Market">>

Limit(limit) == <<"Limit", limit>>

Stop(stop) == <<"Stop", stop>>

StopLimit(stop, limit) == <<"StopLimit", stop, limit>>

MOC == <<"MOC">>

MOO == <<"MOO">>

LOC(limit) == <<"LOC", limit>>

LOO(limit) == <<"LOO", limit>>

\* struct Ticker: the broker reads close and datetime only
Ticker(close, datetime) == [close |-> close, datetime |-> datetime]

\* struct Order; on_execute and on_cancel are Option<fn(&mut Broker)>, a
\* callback being named by what the function does (see call)
Order(symbol, quantity, side, order_type, datetime, on_execute, on_cancel) ==
    [symbol |-> symbol, quantity |-> quantity, side |-> side,
     order_type |-> order_type, datetime |-> datetime, execution |-> "GTC",
     on_execute |-> on_execute, on_cancel |-> on_cancel]

\* struct Position
Position(symbol, amount, price) ==
    [symbol |-> symbol, amount |-> amount, price |-> price]

\* Result<(), BrokerError> together with the broker the call leaves behind;
\* "Panic" stands for the process aborting inside the call
Ret(b, res) == [b |-> b, res |-> res]

\* HashMap::insert and HashMap::remove
Insert(map, k, v) == (k :> v) @@ map

Remove(map, k) == [x \in DOMAIN map \ {k} |-> map[x]]

\* ------------------------------------------------------------------ broker

\* the id and the order the contingent callback of the documentation submits
StopLossId == 1

StopLossPrice == R(1)

\* Broker::new
Broker(initial_cash, commission, margin, now) ==
    [initial_cash |-> initial_cash,
     commission |-> commission,
     leverage |-> FDiv(R(1), margin),
     \* the two flags new stores too; the brokers here are built with both
     \* false, and Configured gives the broker built with others
     exclusive_orders |-> FALSE,
     hedging |-> FALSE,
     datetime |-> now,
     active_orders |-> <<>>,
     canceled_orders |-> <<>>,
     trades |-> <<>>,
     current_cash |-> initial_cash,
     positions |-> <<>>,
     previous_ticker |-> None,
     \* what the call in progress has done so far, in order: the orders it
     \* executed, the callbacks it ran, the orders it inserted and removed
     events |-> <<>>]

\* Broker::new with its checks of the configuration: a panic when one fails,
\* and then there is no broker
new(initial_cash, commission, margin, now) ==
    IF FLt(initial_cash, R(0))
    THEN Ret(None, "Panic")
    ELSE IF FGt(commission, <<1, 10>>) \/ FLt(commission, <<-1, 10>>)
    THEN Ret(None, "Panic")
    ELSE IF FLt(margin, R(0)) \/ FGt(margin, R(1))
    THEN Ret(None, "Panic")
    ELSE Ret(Broker(initial_cash, commission, margin, now), "Ok")

\* Broker::get_datetime
get_datetime(b) == b.datetime

\* a submit_order that leaves alone an order already pending under the id
submit_order_if_vacant(b, id, order) ==
    IF id \in DOMAIN b.active_orders
    THEN Ret([b EXCEPT !.events = Append(@, <<"submit", id, order>>)], "Ok")
    ELSE Ret([b EXCEPT !.active_orders = Insert(@, id, order),
                       !.events = Append(@, <<"submit", id, order>>)], "Ok")

\* Broker::submit_order
submit_order(b, id, order) ==
    Ret([b EXCEPT !.active_orders = Insert(@, id, order),
                  !.events = Append(@, <<"submit", id, order>>)], "Ok")

RECURSIVE cancel_order(_, _)
RECURSIVE call(_, _, _)

\* if let Some(callback) = order.on_execute { callback(self)?; } Ok(()),
\* and the same of on_cancel
Callback(b, hook, callback) ==
    IF callback # None THEN call(b, hook, callback[1]) ELSE Ret(b, "Ok")

\* a cancel_order that reports nothing when the id is not pending, as the
\* cancel_order of src/src/core/broker.rs does
cancel_order_silent(b, id) ==
    IF id \in DOMAIN b.active_orders
    THEN Callback([b EXCEPT !.active_orders = Remove(@, id),
                            !.events = Append(@, <<"cancel", id, b.active_orders[id]>>)],
                  "on_cancel", b.active_orders[id].on_cancel)
    ELSE Ret(b, "Ok")

\* Broker::cancel_order
cancel_order(b, id) ==
    IF id \in DOMAIN b.active_orders
    THEN Callback([b EXCEPT !.active_orders = Remove(@, id),
                            !.events = Append(@, <<"cancel", id, b.active_orders[id]>>)],
                  "on_cancel", b.active_orders[id].on_cancel)
    ELSE Ret(b, "OrderIdNotFound")

\* what a callback handed &mut Broker observes of it
Seen(b) ==
    [current_cash |-> b.current_cash, positions |-> b.positions,
     datetime |-> get_datetime(b)]

\* callback(self)?: the functions an order may carry
\*   "StopLoss"    submits a Sell Stop under StopLossId (the documentation's example)
\*   "CancelOther" cancels the order StopLossId
\*   "Fail"        returns an error
\* The event of the call records what the callback can read of the broker
\* it is handed: its cash, its positions and its clock.
call(b, hook, callback) ==
    LET b1 == [b EXCEPT !.events = Append(@, <<"call", hook, callback,
                                              Seen(b)>>)]
    IN  CASE callback = "StopLoss" ->
               submit_order(b1, StopLossId,
                            Order("AAPL", R(1), "Sell", Stop(StopLossPrice),
                                  get_datetime(b1), None, None))
          [] callback = "CancelOther" -> cancel_order(b1, StopLossId)
          [] callback = "Fail" -> Ret(b1, "OutOfMoneyError")

\* a Buy arm that opens the position anew, whatever was held
BuyPositionAnew(positions, order, ticker) ==
    Insert(positions, order.symbol,
           Position(order.symbol, order.quantity, ticker.close))

\* the Buy arm of execute_order: the position after the fill
BuyPosition(positions, order, ticker) ==
    IF order.symbol \in DOMAIN positions
    THEN LET position == positions[order.symbol]
         IN  Insert(positions, order.symbol,
                    Position(order.symbol,
                             FAdd(position.amount, order.quantity),
                             FDiv(FAdd(FMul(position.amount, position.price),
                                       FMul(order.quantity, ticker.close)),
                                  FAdd(position.amount, order.quantity))))
    ELSE Insert(positions, order.symbol,
                Position(order.symbol, order.quantity, ticker.close))

\* one millionth
Micro == <<1, 1000000>>

\* a test against one millionth instead of f32::EPSILON
KeepsPositionAboveMicro(new_amount) == FGt(FAbs(new_amount), Micro)

\* new_amount.abs() > std::f32::EPSILON
KeepsPosition(new_amount) == FGt(FAbs(new_amount), EPSILON)

\* the Sell arm of execute_order: the position after the fill
SellPosition(positions, order, ticker) ==
    IF order.symbol \in DOMAIN positions
    THEN LET position == positions[order.symbol]
             new_amount == FSub(position.amount, order.quantity)
         IN  IF KeepsPosition(new_amount)
             THEN Insert(positions, order.symbol,
                         Position(order.symbol, new_amount,
                                  FDiv(FSub(FMul(position.amount, position.price),
                                            FMul(order.quantity, ticker.close)),
                                       FSub(position.amount, order.quantity))))
             ELSE Remove(positions, order.symbol)
    ELSE Insert(positions, order.symbol,
                Position(order.symbol, FNeg(order.quantity), ticker.close))

\* a Buy that also pays the broker's commission on the amount
BuyCashWithCommission(b, order, ticker) ==
    FSub(b.current_cash,
         FMul(FMul(order.quantity, ticker.close), FAdd(R(1), b.commission)))

\* the cash after a fill
BuyCash(b, order, ticker) ==
    FSub(b.current_cash, FMul(order.quantity, ticker.close))

\* a Sell that pays the broker's commission out of its proceeds
SellCashLessCommission(b, order, ticker) ==
    FAdd(b.current_cash,
         FMul(FMul(order.quantity, ticker.close), FSub(R(1), b.commission)))

\* a Sell whose proceeds are taken from the cash
SellCashDebited(b, order, ticker) ==
    FSub(b.current_cash, FMul(order.quantity, ticker.close))

SellCash(b, order, ticker) ==
    FAdd(b.current_cash, FMul(order.quantity, ticker.close))

\* an order executed at a price: info!("Bought {} shares @ {}"),
\* info!("Sold {} shares @ {}")
Fill(order, ticker) == <<"fill", order, ticker.close>>

\* an execute_order that hands the broker to on_execute before it applies
\* the fill
execute_order_calling_first(b, order, ticker) ==
    LET r == Callback(b, "on_execute", order.on_execute)
    IN  IF r.res # "Ok" THEN r
        ELSE IF order.side = "Buy"
        THEN Ret([r.b EXCEPT !.positions = BuyPosition(@, order, ticker),
                             !.current_cash = BuyCash(r.b, order, ticker),
                             !.events = Append(@, Fill(order, ticker))], "Ok")
        ELSE Ret([r.b EXCEPT !.positions = SellPosition(@, order, ticker),
                             !.current_cash = SellCash(r.b, order, ticker),
                             !.events = Append(@, Fill(order, ticker))], "Ok")

\* Broker::execute_order
execute_order(b, order, ticker) ==
    Callback(IF order.side = "Buy"
             THEN [b EXCEPT !.positions = BuyPosition(@, order, ticker),
                            !.current_cash = BuyCash(b, order, ticker),
                            !.events = Append(@, Fill(order, ticker))]
             ELSE [b EXCEPT !.positions = SellPosition(@, order, ticker),
                            !.current_cash = SellCash(b, order, ticker),
                            !.events = Append(@, Fill(order, ticker))],
             "on_execute", order.on_execute)

\* a session test for which a new session comes after more than a day
next_date_after_a_day(b) ==
    IF b.previous_ticker # None
    THEN get_datetime(b) - b.previous_ticker[1].datetime > 24
    ELSE TRUE

\* a session test that takes a gap of 8 hours for a new session
next_date_from_8_hours(b) ==
    IF b.previous_ticker # None
    THEN get_datetime(b) - b.previous_ticker[1].datetime >= 8
    ELSE TRUE

\* Broker::next_date
next_date(b) ==
    IF b.previous_ticker # None
    THEN get_datetime(b) - b.previous_ticker[1].datetime > 8
    ELSE TRUE

\* a Limit inequality that leaves out the limit price itself
LimitHoldsStrict(side, close, limit) ==
    IF side = "Buy" THEN FLt(close, limit) ELSE FGt(close, limit)

\* the Limit inequality of process_active_orders
LimitHolds(side, close, limit) ==
    IF side = "Buy" THEN FLe(close, limit) ELSE FGe(close, limit)

\* the Stop inequality of process_active_orders
StopHolds(side, close, stop) ==
    IF side = "Buy" THEN FGe(close, stop) ELSE FLe(close, stop)

\* the StopLimit condition of process_active_orders
StopLimitHolds(side, close, stop, limit) ==
    IF side = "Buy"
    THEN FGe(close, stop) /\ FLt(close, limit)
    ELSE FLe(close, stop) /\ FGt(close, limit)

\* the order a Stop or StopLimit order is resubmitted as
Converted(b, order, order_type) ==
    Order(order.symbol, order.quantity, order.side, order_type,
          get_datetime(b), order.on_execute, order.on_cancel)

\* One turn of the loop of process_active_orders on (id, order) of the
\* snapshot.  kept: the turn reaches non_executed_active_orders.insert.
Turn(b, res, kept) == [b |-> b, res |-> res, kept |-> kept]

\* a turn that refuses the execution once the cash has gone below zero
ExecutedIfFunded(r) ==
    IF FLt(r.b.current_cash, R(0))
    THEN Turn(r.b, "InsufficientFundsForPurchase", FALSE)
    ELSE Turn(r.b, r.res, FALSE)

\* a turn that executes the order and keeps it pending all the same
ExecutedAndKept(r) == Turn(r.b, r.res, TRUE)

Executed(r) == Turn(r.b, r.res, FALSE)

\* a previous tick that is the current one when none is stored
PreviousOrCurrent(b, ticker) ==
    IF b.previous_ticker # None THEN b.previous_ticker ELSE Some(ticker)

\* if let Some(previous) = &self.previous_ticker.clone(), in the turn of an
\* order on the ticker
Previous(b, ticker) == b.previous_ticker

Visit(b, id, order, ticker) ==
    LET t == order.order_type
        kind == t[1]
    IN  CASE kind = "Market" -> Executed(execute_order(b, order, ticker))
          [] kind = "Limit" ->
               IF LimitHolds(order.side, ticker.close, t[2])
               THEN Executed(execute_order(b, order, ticker))
               ELSE Turn(b, "Ok", TRUE)
          [] kind = "Stop" ->
               IF StopHolds(order.side, ticker.close, t[2])
               THEN Executed(submit_order(b, id, Converted(b, order, Market)))
               ELSE Turn(b, "Ok", TRUE)
          [] kind = "StopLimit" ->
               IF StopLimitHolds(order.side, ticker.close, t[2], t[3])
               THEN Executed(submit_order(b, id, Converted(b, order, Limit(t[3]))))
               ELSE Turn(b, "Ok", TRUE)
          [] kind = "MOC" ->
               IF next_date(b) /\ Previous(b, ticker) # None
               THEN Executed(execute_order(b, order, Previous(b, ticker)[1]))
               ELSE Turn(b, "Ok", TRUE)
          [] kind = "MOO" ->
               IF next_date(b)
               THEN Executed(execute_order(b, order, ticker))
               ELSE Turn(b, "Panic", FALSE)
          [] kind = "LOC" ->
               IF next_date(b) /\ Previous(b, ticker) # None
                  /\ LimitHolds(order.side, ticker.close, t[2])
               THEN Executed(execute_order(b, order, Previous(b, ticker)[1]))
               ELSE Turn(b, "Ok", TRUE)
          [] kind = "LOO" ->
               IF next_date(b) /\ LimitHolds(order.side, ticker.close, t[2])
               THEN Executed(execute_order(b, order, ticker))
               ELSE Turn(b, "Ok", TRUE)

\* Broker::process_active_orders; visiting is the order in which the
\* iteration of the cloned HashMap yields the ids
RECURSIVE Loop(_, _, _, _, _)
RECURSIVE Turned(_, _, _, _, _)

Loop(b, snapshot, visiting, non_executed_active_orders, ticker) ==
    IF visiting = <<>>
    THEN Ret([b EXCEPT !.active_orders = non_executed_active_orders], "Ok")
    ELSE Turned(Visit(b, Head(visiting), snapshot[Head(visiting)], ticker),
                snapshot, visiting, non_executed_active_orders, ticker)

\* a loop that goes on to the next order whatever the turn returned
TurnedRegardless(turn, snapshot, visiting, non_executed_active_orders, ticker) ==
    Loop(turn.b, snapshot, Tail(visiting),
         IF turn.kept
         THEN Insert(non_executed_active_orders, Head(visiting), snapshot[Head(visiting)])
         ELSE non_executed_active_orders,
         ticker)

\* after the turn on Head(visiting): `?` leaves the loop on an error, else
\* the order is kept or not and the loop goes on
Turned(turn, snapshot, visiting, non_executed_active_orders, ticker) ==
    IF turn.res # "Ok"
    THEN Ret(turn.b, turn.res)
    ELSE Loop(turn.b, snapshot, Tail(visiting),
              IF turn.kept
              THEN Insert(non_executed_active_orders, Head(visiting),
                          snapshot[Head(visiting)])
              ELSE non_executed_active_orders,
              ticker)

process_active_orders(b, ticker, visiting) ==
    Loop(b, b.active_orders, visiting, <<>>, ticker)

\* Broker::next
Processed(r, ticker) ==
    IF r.res = "Ok"
    THEN Ret([r.b EXCEPT !.previous_ticker = Some(ticker)], "Ok")
    ELSE r

next(b, ticker, visiting) ==
    Processed(process_active_orders([b EXCEPT !.datetime = ticker.datetime],
                                    ticker, visiting),
              ticker)

\* the orders in which a HashMap with these keys may be iterated
Orderings(keys) ==
    {p \in [1 .. Cardinality(keys) -> keys] :
        \A i, j \in 1 .. Cardinality(keys) : i # j => p[i] # p[j]}

\* ------------------------------------------------------------------ the broker driven through its public methods

VARIABLES
    broker,     \* the Broker
    last,       \* the last call made on it, its argument and what it returned
    strategy,   \* the repertoire the caller draws its orders from
    nticks,     \* the number of tickers passed to next so far
    feed,       \* the tickers a Backtest is to read; <<>> when there is none
    audit,      \* what has happened to the broker so far (see Track)
    indicator   \* the Indicator under update, None when there is none

vars == <<broker, last, strategy, nticks, feed, audit, indicator>>

\* the number of tickers of a feed
MaxTicks == 2

OrderIds == {0, 1}

Symbols == {"AAPL"}

\* 2^-21: a quantity whose multiples fall between f32::EPSILON and 1e-6
Dust == <<1, 2097152>>

\* an order without callbacks, stamped with the time the broker was made
Plain(quantity, side, order_type) ==
    Order("AAPL", quantity, side, order_type, 0, None, None)

\* What each caller submits.
Repertoire(s) ==
    CASE s = "spot" ->
           {Plain(R(1), "Buy", Market), Plain(R(2), "Buy", Market),
            Plain(R(1), "Sell", Market)}
      [] s = "limit" ->
           {Plain(R(1), sd, Limit(R(2))) : sd \in {"Buy", "Sell"}}
           \cup {Plain(R(1), "Buy", Market)}
      [] s = "dust" ->
           {Plain(Dust, "Buy", Market), Plain(Dust, "Sell", Market),
            Plain(FMul(<<3, 4>>, Dust), "Sell", Market)}
      [] s = "overdraft" ->
           {Plain(R(1), "Buy", Market), Plain(R(1), "Sell", Market)}
      [] s = "stops" ->
           {Plain(R(1), sd, Stop(R(2))) : sd \in {"Buy", "Sell"}}
           \cup {Plain(R(1), "Buy", StopLimit(R(2), R(3))),
                 Plain(R(1), "Sell", StopLimit(R(2), R(1))),
                 Order("AAPL", R(2), "Buy", Stop(R(2)), 0, Some("StopLoss"), Some("Fail")),
                 Plain(R(1), "Buy", Market)}
      [] s = "session" ->
           {Plain(R(1), sd, t) : sd \in {"Buy", "Sell"}, t \in {MOC, MOO}}
      [] s = "session limit" ->
           {Plain(R(1), sd, t) : sd \in {"Buy", "Sell"}, t \in {LOC(R(2)), LOO(R(2))}}
      [] s = "contingent" ->
           {Order("AAPL", R(1), "Buy", Market, 0, Some(cb), None) :
                cb \in {"StopLoss", "CancelOther", "Fail"}}
           \cup {Plain(R(1), "Sell", Limit(R(2)))}
      [] s = "hooks" ->
           {Order("AAPL", R(1), "Sell", Limit(R(2)), 0, None, cb) :
                cb \in {None, Some("StopLoss"), Some("CancelOther"), Some("Fail")}}

Strategies ==
    {"spot", "limit", "dust", "stops", "session", "session limit", "contingent", "hooks",
     "overdraft"}

\* the closes a feed may hold
Closes(s) ==
    IF s = "overdraft" THEN {R(1), R(300)}
    ELSE IF s = "dust" THEN {R(1)}
    ELSE IF s \in {"spot", "session"} THEN {R(1), R(3)}
    ELSE {R(1), R(2), R(3)}

\* hours from one ticker to the next
Gaps(s) == IF s \in {"session", "session limit"} THEN {8, 9} ELSE {1}

Call(op, arg, res) == [op |-> op, arg |-> arg, res |-> res]

\* the events of one kind among those of a call
Events(b, kind) == SelectSeq(b.events, LAMBDA e : e[1] = kind)

\* The fills of one symbol since its position was last flat: the net signed
\* amount, and the quantity and value (sum of quantity x price) of the fills
\* made in the position's direction.  A fill that takes the position through
\* zero to the other side leaves no such run to speak of (run = FALSE).
Flat == [amount |-> R(0), quantity |-> R(0), value |-> R(0), run |-> TRUE]

TrackFill(a, order, price) ==
    LET signed == IF order.side = "Buy" THEN order.quantity ELSE FNeg(order.quantity)
        amount == FAdd(a.amount, signed)
        paid == FMul(order.quantity, price)
    IN  IF a.amount = R(0)
        THEN [amount |-> amount, quantity |-> order.quantity, value |-> paid, run |-> TRUE]
        ELSE IF Sign(a.amount[1]) = Sign(signed[1])
        THEN [a EXCEPT !.amount = amount,
                       !.quantity = FAdd(@, order.quantity),
                       !.value = FAdd(@, paid)]
        ELSE IF amount = R(0) THEN Flat
        ELSE IF Sign(amount[1]) = Sign(a.amount[1]) THEN [a EXCEPT !.amount = amount]
        ELSE [amount |-> amount, quantity |-> R(0), value |-> R(0), run |-> FALSE]

\* What has happened to the broker over the whole run, kept beside it:
\*   bought    the sum of quantity x price over the Buy fills
\*   sold      the sum of quantity x price over the Sell fills
\*   ledger    per symbol, the fills since the position was last flat
\*   canceled  the ids whose order cancel_order removed, nothing having been
\*             submitted under the id since
\*   widest    the widest gap, in hours, between two consecutive tickers
\*   passed    the ticker of the last next that returned Ok, if any
Track(au, e) ==
    CASE e[1] = "fill" ->
           [au EXCEPT !.ledger[e[2].symbol] = TrackFill(@, e[2], e[3]),
                      !.bought = IF e[2].side = "Buy"
                                 THEN FAdd(@, FMul(e[2].quantity, e[3])) ELSE @,
                      !.sold = IF e[2].side = "Sell"
                               THEN FAdd(@, FMul(e[2].quantity, e[3])) ELSE @]
      [] e[1] = "cancel" -> [au EXCEPT !.canceled = @ \cup {e[2]}]
      [] e[1] = "submit" -> [au EXCEPT !.canceled = @ \ {e[2]}]
      [] OTHER -> au

RECURSIVE TrackAll(_, _)
TrackAll(au, events) ==
    IF events = <<>> THEN au ELSE TrackAll(Track(au, Head(events)), Tail(events))

Unaudited ==
    [bought |-> R(0), sold |-> R(0), ledger |-> [s \in Symbols |-> Flat],
     canceled |-> {}, widest |-> 0, calls |-> <<>>, passed |-> None]

\* the audit once a ticker comes gap hours after the one before
Widened(gap) == [audit EXCEPT !.widest = IF nticks > 0 /\ gap > @ THEN gap ELSE @]

Init ==
    /\ strategy \in Strategies
    /\ broker = Broker(R(100), <<1, 10>>, <<1, 2>>, 0)
    /\ last = Call("new", <<>>, "Ok")
    /\ nticks = 0
    /\ feed = <<>>
    /\ audit = Unaudited
    /\ indicator = None

\* the process is running and the feed has tickers left
Running == last.res # "Panic" /\ nticks < MaxTicks

\* a call begins: nothing logged, no callback run yet
Began(b) == [b EXCEPT !.events = <<>>]

\* the call op(arg) has returned r
\* the audit once the call op(arg) has returned res
Passed(au, op, arg, res) ==
    IF op = "next" /\ res = "Ok" THEN [au EXCEPT !.passed = Some(arg)] ELSE au

Returns(op, arg, r, au) ==
    /\ broker' = r.b
    /\ last' = Call(op, arg, r.res)
    /\ audit' = Passed(TrackAll(au, r.b.events), op, arg, r.res)

SubmitOrder(id, order) ==
    /\ Running
    /\ Returns("submit_order", <<id, order>>, submit_order(Began(broker), id, order), audit)
    /\ UNCHANGED <<indicator, strategy, nticks, feed>>

CancelOrder(id) ==
    /\ Running
    /\ Returns("cancel_order", id, cancel_order(Began(broker), id), audit)
    /\ UNCHANGED <<indicator, strategy, nticks, feed>>

Tick(ticker, visiting, au) ==
    Returns("next", ticker, next(Began(broker), ticker, visiting), au)

NextTicker(close, gap, visiting) ==
    /\ Running
    /\ Tick(Ticker(close, get_datetime(broker) + gap), visiting, Widened(gap))
    /\ nticks' = nticks + 1
    /\ UNCHANGED <<indicator, strategy, feed>>

Next ==
    \/ \E id \in OrderIds, order \in Repertoire(strategy) : SubmitOrder(id, order)
    \/ \E id \in OrderIds : CancelOrder(id)
    \/ \E close \in Closes(strategy), gap \in Gaps(strategy),
          visiting \in Orderings(DOMAIN broker.active_orders) :
            NextTicker(close, gap, visiting)

Spec == Init /\ [][Next]_vars

\* ------------------------------------------------------------------ the broker driven by Backtest::run

\* the number of tickers of the feed of a backtest
FeedLen == 3

FeedCloses == {R(95), R(100), R(105)}

\* the feeds: hourly tickers
Feeds ==
    {[i \in 1 .. FeedLen |-> Ticker(closes[i], i)] : closes \in [1 .. FeedLen -> FeedCloses]}

\* what a strategy submits in one on_ticker: <<id, quantity, side, order_type>>,
\* with the order's on_execute as a fifth component when it has one; <<err>>
\* is an on_ticker that returns Err(err) there
BuyThenSell == <<<<0, R(10), "Buy", Market>>, <<1, R(10), "Sell", Limit(R(102))>>>>

Plans == {<<>>, <<BuyThenSell[1]>>, <<BuyThenSell[2]>>, BuyThenSell}

\* Strategy::on_ticker of a strategy that submits plan, each order stamped
\* with ticker.datetime as the strategies of the repository do
RECURSIVE on_ticker(_, _, _)
on_ticker(b, ticker, plan) ==
    IF plan = <<>>
    THEN Ret(b, "Ok")
    ELSE IF Len(plan[1]) = 1
    THEN Ret(b, plan[1][1])
    ELSE on_ticker(submit_order(b, plan[1][1],
                                Order("AAPL", plan[1][2], plan[1][3], plan[1][4],
                                      ticker.datetime,
                                      IF Len(plan[1]) = 5 THEN plan[1][5] ELSE None,
                                      None)).b,
                   ticker, Tail(plan))

\* an item of the feed that is Err(csv::Error): a line that does not parse
Malformed == [error |-> "csv::Error"]

\* the audit once run has made the call op on the k-th item of the feed
Called(au, op, k) == [au EXCEPT !.calls = Append(@, <<op, k>>)]

\* run, every call before only next and on_ticker, always the same
\* statement: the one that follows the call l in the body of the loop
Always(l) == "next"

\* the statement of the loop of run that follows the call l
Step(l) == IF l.op = "next" THEN "on_ticker" ELSE "next"

InitBacktest ==
    /\ strategy \in [1 .. FeedLen -> Plans]
    /\ feed \in Feeds
    /\ broker = Broker(R(100000), R(0), R(1), 0)
    /\ last = Call("new", <<>>, "Ok")
    /\ nticks = 0
    /\ audit = Unaudited
    /\ indicator = None

\* run is at `for ticker in self.feed`: every call so far returned Ok, and
\* the last one was not the next of an iteration
AtFor ==
    /\ last.res = "Ok"
    /\ last.op \in {"new", "next", "on_ticker"}
    /\ Step(last) = "next"

\* the iterator of the feed yields an item
Pulls == AtFor /\ nticks < Len(feed)

\* self.broker.next(&ticker)? on the next ticker of the feed
\* (ticker.expect("Failed to parse ticker.") panics on an item that is Err)
BrokerNext(visiting) ==
    /\ Pulls
    /\ IF feed[nticks + 1] = Malformed
       THEN /\ last' = Call("expect", feed[nticks + 1], "Panic")
            /\ UNCHANGED <<broker, audit>>
       ELSE Tick(feed[nticks + 1], visiting,
                 Called(Widened(feed[nticks + 1].datetime - get_datetime(broker)),
                        "next", nticks + 1))
    /\ nticks' = nticks + 1
    /\ UNCHANGED <<indicator, strategy, feed>>

\* self.strategy.on_ticker(&ticker, &mut self.broker)? on the same ticker
StrategyOnTicker ==
    /\ last.res = "Ok"
    /\ last.op \in {"next", "on_ticker"}
    /\ Step(last) = "on_ticker"
    /\ Returns("on_ticker", feed[nticks],
               on_ticker(Began(broker), feed[nticks], strategy[nticks]),
               Called(audit, "on_ticker", nticks))
    /\ UNCHANGED <<indicator, strategy, nticks, feed>>

\* the feed is exhausted: Ok(BacktestResult { .. })
RunReturns ==
    /\ AtFor
    /\ nticks = Len(feed)
    /\ last' = Call("run", <<>>, "Ok")
    /\ UNCHANGED <<indicator, broker, strategy, nticks, feed, audit>>

NextBacktest ==
    \/ \E visiting \in Orderings(DOMAIN broker.active_orders) : BrokerNext(visiting)
    \/ StrategyOnTicker
    \/ RunReturns

SpecBacktest == InitBacktest /\ [][NextBacktest]_vars

\* ------------------------------------------------------------------ Backtest::run on feeds and strategies that fail

\* the feeds with lines that do not parse
FeedsOrMalformed ==
    {[i \in 1 .. FeedLen |-> IF i \in bad THEN Malformed ELSE Ticker(R(100), i)] :
        bad \in SUBSET (1 .. FeedLen)}

\* a strategy that does nothing, one that buys at the market with an
\* on_execute that fails, and one whose on_ticker fails
PlansOrErr ==
    {<<>>, <<<<0, R(10), "Buy", Market, Some("Fail")>>>>, <<<<"BrokerError">>>>}

InitRun ==
    /\ strategy \in [1 .. FeedLen -> PlansOrErr]
    /\ feed \in FeedsOrMalformed
    /\ broker = Broker(R(100000), R(0), R(1), 0)
    /\ last = Call("new", <<>>, "Ok")
    /\ nticks = 0
    /\ audit = Unaudited
    /\ indicator = None

SpecRun == InitRun /\ [][NextBacktest]_vars

\* ------------------------------------------------------------------ the construction of a broker

\* the configurations a caller may pass: in range, on the edges of the
\* ranges, outside them, and the f32 values that are no numbers
Cashes == {R(-1), R(0), R(100), Inf(1), NaN}

Commissions == {<<-1, 5>>, <<-1, 10>>, R(0), <<1, 10>>, <<1, 5>>, NaN}

Margins == {R(-1), R(0), <<1, 2>>, R(1), R(2), NaN}

\* the caller holds a configuration and no broker yet
InitNew ==
    /\ strategy \in Cashes \X Commissions \X Margins
    /\ broker = None
    /\ last = Call("main", <<>>, "Ok")
    /\ nticks = 0
    /\ feed = <<>>
    /\ audit = Unaudited
    /\ indicator = None

\* the caller constructs the broker
Construct ==
    /\ last.op = "main"
    /\ broker' = new(strategy[1], strategy[2], strategy[3], 0).b
    /\ last' = Call("new", strategy, new(strategy[1], strategy[2], strategy[3], 0).res)
    /\ UNCHANGED <<indicator, strategy, nticks, feed, audit>>

NextNew == Construct

SpecNew == InitNew /\ [][NextNew]_vars

\* ------------------------------------------------------------------ the indicators: SMA

\* what get_value and at return: Ok(value) or Err(res)
Got(value, res) == [value |-> value, res |-> res]

\* SMA::new
SMA(period) == [period |-> period, ticks |-> <<>>, values |-> <<>>]

\* self.ticks.iter().sum::<f32>()
RECURSIVE Sum(_)
Sum(ticks) ==
    IF ticks = <<>> THEN R(0) ELSE FAdd(Sum(SubSeq(ticks, 1, Len(ticks) - 1)), ticks[Len(ticks)])

\* SMA::get_value
SMA_get_value(s) ==
    IF s.values = <<>>
    THEN Got(None, "InsufficientData")
    ELSE Got(s.values[Len(s.values)], "Ok")

\* SMA::at (index counts from 0)
SMA_at(s, index) ==
    IF index < Len(s.values)
    THEN Got(s.values[index + 1], "Ok")
    ELSE Got(None, "IndexOutOfRange")

\* (latest_value * period - oldest + ticker.close) / period
Slid(latest_value, period, oldest, close) ==
    FDiv(FAdd(FSub(FMul(latest_value, R(period)), oldest), close), R(period))

\* an update that never removes the oldest of its ticks
SMA_update_keeping(s, ticker) ==
    IF Len(s.ticks) + 1 < s.period
    THEN Ret([s EXCEPT !.ticks = Append(@, ticker.close)], "Ok")
    ELSE IF s.values = <<>>
    THEN Ret([s EXCEPT !.ticks = Append(@, ticker.close),
                       !.values = <<FDiv(Sum(Append(s.ticks, ticker.close)), R(s.period))>>],
             "Ok")
    ELSE Ret([s EXCEPT !.ticks = Append(@, ticker.close),
                       !.values = Append(@, Slid(SMA_get_value(s).value, s.period,
                                                 s.ticks[1], ticker.close))],
             "Ok")

\* an update that waits for one tick more than the period
SMA_update_late(s, ticker) ==
    IF Len(s.ticks) + 1 <= s.period
    THEN Ret([s EXCEPT !.ticks = Append(@, ticker.close)], "Ok")
    ELSE IF s.values = <<>>
    THEN Ret([s EXCEPT !.ticks = Append(@, ticker.close),
                       !.values = <<FDiv(Sum(Append(s.ticks, ticker.close)), R(s.period))>>],
             "Ok")
    ELSE Ret([s EXCEPT !.ticks = Tail(Append(@, ticker.close)),
                       !.values = Append(@, Slid(SMA_get_value(s).value, s.period,
                                                 s.ticks[1], ticker.close))],
             "Ok")

\* SMA::update: the close is pushed; nothing more while there are fewer
\* ticks than the period; the first value is the sum of the ticks over the
\* period; every later one slides the latest value, the oldest tick being
\* removed (there is one, the close just pushed at the least)
SMA_update(s, ticker) ==
    IF Len(s.ticks) + 1 < s.period
    THEN Ret([s EXCEPT !.ticks = Append(@, ticker.close)], "Ok")
    ELSE IF s.values = <<>>
    THEN Ret([s EXCEPT !.ticks = Append(@, ticker.close),
                       !.values = <<FDiv(Sum(Append(s.ticks, ticker.close)), R(s.period))>>],
             "Ok")
    ELSE Ret([s EXCEPT !.ticks = Tail(Append(@, ticker.close)),
                       !.values = Append(@, Slid(SMA_get_value(s).value, s.period,
                                                 Append(s.ticks, ticker.close)[1],
                                                 ticker.close))],
             "Ok")

\* the number of updates of an indicator
MaxUpdates == 5

\* the greatest period of an SMA
MaxPeriod == 3

SMACloses == {R(1), R(2), R(4)}

InitSMA ==
    /\ indicator \in {SMA(period) : period \in 0 .. MaxPeriod}
    /\ broker = None
    /\ last = Call("new", <<>>, "Ok")
    /\ strategy = <<>>
    /\ nticks = 0
    /\ feed = <<>>
    /\ audit = Unaudited

\* sma.update(&ticker) on one more ticker, kept in feed
SMAUpdate(close) ==
    /\ nticks < MaxUpdates
    /\ indicator' = SMA_update(indicator, Ticker(close, nticks + 1)).b
    /\ last' = Call("update", Ticker(close, nticks + 1),
                    SMA_update(indicator, Ticker(close, nticks + 1)).res)
    /\ feed' = Append(feed, Ticker(close, nticks + 1))
    /\ nticks' = nticks + 1
    /\ UNCHANGED <<broker, strategy, audit>>

NextSMA == \E close \in SMACloses : SMAUpdate(close)

SpecSMA == InitSMA /\ [][NextSMA]_vars

\* ------------------------------------------------------------------ the indicators: EFFR

\* a record of the rate series
DFF(dff, date) == [dff |-> dff, date |-> date]

\* EFFR::from_csv: the stream is at the first line of the series
EFFR(series) ==
    [previous |-> None, current |-> None, date |-> 0, series |-> series, stream |-> series]

\* EFFR::update: the stream is read on from where the update before left
\* it, past the lines that do not parse, up to the first record dated
\* ticker.datetime or later
RECURSIVE EFFR_update(_, _)
EFFR_update(e, ticker) ==
    IF e.stream = <<>>
    THEN Ret(e, "InsufficientData")
    ELSE IF Head(e.stream) = Malformed
    THEN EFFR_update([e EXCEPT !.stream = Tail(@)], ticker)
    ELSE IF Head(e.stream).date >= ticker.datetime
    THEN Ret([e EXCEPT !.current = Some(Head(e.stream).dff),
                       !.date = Head(e.stream).date,
                       !.stream = Tail(@)],
             "Ok")
    ELSE EFFR_update([e EXCEPT !.previous = Some(Head(e.stream)), !.stream = Tail(@)],
                     ticker)

\* EFFR::get_value
EFFR_get_value(e) ==
    IF e.current # None THEN Got(e.current[1], "Ok") ELSE Got(None, "InsufficientData")

\* EFFR::at
EFFR_at(e, index) == Got(None, "IndexOutOfRange")

\* the dates of the rate series are 1 .. MaxDates
MaxDates == 3

\* the number of updates of an EFFR
MaxReads == 3

\* the lines of a series in the order of their dates, from the date-th:
\* lines[d] tells whether the date d has a record, a line that does not
\* parse, or no line; the rate of the date d is d
RECURSIVE Lines(_, _)
Lines(lines, date) ==
    IF date > Len(lines) THEN <<>>
    ELSE (CASE lines[date] = "record" -> <<DFF(R(date), date)>>
            [] lines[date] = "malformed" -> <<Malformed>>
            [] lines[date] = "none" -> <<>>)
         \o Lines(lines, date + 1)

Serieses ==
    {Lines(lines, 1) : lines \in [1 .. MaxDates -> {"record", "malformed", "none"}]}

InitEFFR ==
    /\ indicator \in {EFFR(series) : series \in Serieses}
    /\ broker = None
    /\ last = Call("from_csv", <<>>, "Ok")
    /\ strategy = <<>>
    /\ nticks = 0
    /\ feed = <<>>
    /\ audit = Unaudited

\* effr.update(&ticker); the call is kept in audit.calls
EFFRUpdate(datetime) ==
    /\ nticks < MaxReads
    /\ indicator' = EFFR_update(indicator, Ticker(R(0), datetime)).b
    /\ last' = Call("update", Ticker(R(0), datetime),
                    EFFR_update(indicator, Ticker(R(0), datetime)).res)
    /\ audit' = [audit EXCEPT !.calls = Append(@, last')]
    /\ nticks' = nticks + 1
    /\ UNCHANGED <<broker, strategy, feed>>

NextEFFR == \E datetime \in 0 .. MaxDates + 1 : EFFRUpdate(datetime)

SpecEFFR == InitEFFR /\ [][NextEFFR]_vars

\* ------------------------------------------------------------------ properties

\* the orders the call just made has executed, in order
Fills(b) == Events(b, "fill")

\* the call just made has executed this order at this price
Filled(b, order, price) ==
    \E i \in 1 .. Len(b.events) : b.events[i] = <<"fill", order, price>>

\* the call just made has executed this order
FilledAtAll(b, order) ==
    \E i \in 1 .. Len(b.events) : b.events[i][1] = "fill" /\ b.events[i][2] = order

C2_AveragePriceIsWeightedMean ==
    strategy = "spot" =>
        \A s \in DOMAIN broker.positions :
            (audit.ledger[s].run /\ audit.ledger[s].quantity # R(0)) =>
                broker.positions[s].price =
                    FDiv(audit.ledger[s].value, audit.ledger[s].quantity)

\* an order without callbacks of this kind
PlainOf(order, kind) ==
    /\ order.order_type[1] = kind
    /\ order.on_execute = None
    /\ order.on_cancel = None

\* the inclusive price condition of a Limit order, as the specification states it
LimitConditionHolds(order, close) ==
    IF order.side = "Buy"
    THEN FLe(close, order.order_type[2])
    ELSE FGe(close, order.order_type[2])

\* C3 as stated: a pending plain Limit order fills during next(tick) if and
\* only if its inclusive price condition holds on that tick (Buy: close <=
\* limit, Sell: close >= limit), and the fill is made at tick.close.
C3_LimitFillsIffConditionHolds ==
    [][last'.op = "next" =>
         \A id \in DOMAIN broker.active_orders :
            PlainOf(broker.active_orders[id], "Limit") =>
                /\ FilledAtAll(broker', broker.active_orders[id])
                        <=> LimitConditionHolds(broker.active_orders[id], last'.arg.close)
                /\ FilledAtAll(broker', broker.active_orders[id])
                        => Filled(broker', broker.active_orders[id], last'.arg.close)]_vars

\* C3, amended: a pending plain Limit order is never filled by next(tick)
\* on a tick where its inclusive price condition fails; when next(tick)
\* returns Ok it has filled every pending plain Limit order whose condition
\* holds; and every such fill is made at tick.close.
C3_LimitFillsIffConditionHoldsWhenOk ==
    [][last'.op = "next" =>
         \A id \in DOMAIN broker.active_orders :
            PlainOf(broker.active_orders[id], "Limit") =>
                /\ FilledAtAll(broker', broker.active_orders[id])
                        => LimitConditionHolds(broker.active_orders[id], last'.arg.close)
                /\ (last'.res = "Ok"
                        /\ LimitConditionHolds(broker.active_orders[id], last'.arg.close))
                        => FilledAtAll(broker', broker.active_orders[id])
                /\ FilledAtAll(broker', broker.active_orders[id])
                        => Filled(broker', broker.active_orders[id], last'.arg.close)]_vars

\* next has just filled a plain Limit order on a tick whose close is the
\* limit itself
C3_FilledAtTheLimit ==
    /\ last.op = "next"
    /\ last.res = "Ok"
    /\ \E i \in 1 .. Len(broker.events) :
          /\ broker.events[i][1] = "fill"
          /\ PlainOf(broker.events[i][2], "Limit")
          /\ broker.events[i][2].order_type[2] = last.arg.close
          /\ broker.events[i][3] = last.arg.close

\* the Market order a Stop order is to become: same symbol, quantity, side
\* and callbacks
IsMarketOf(converted, order) ==
    /\ converted.order_type = Market
    /\ converted.symbol = order.symbol
    /\ converted.quantity = order.quantity
    /\ converted.side = order.side
    /\ converted.on_execute = order.on_execute
    /\ converted.on_cancel = order.on_cancel

\* the stop condition of a Stop order, as the specification states it
StopConditionHolds(order, close) ==
    IF order.side = "Buy"
    THEN FGe(close, order.order_type[2])
    ELSE FLe(close, order.order_type[2])

\* C4: after a next(tick) that returns Ok, a Stop order that was pending is
\* still pending and unchanged if its stop condition fails on the tick (Buy:
\* close < stop, Sell: close > stop), and if the condition holds the pending
\* set holds under the same id a Market order with the same symbol,
\* quantity, side and callbacks.
C4_StopBecomesMarket ==
    [][(last'.op = "next" /\ last'.res = "Ok") =>
         \A id \in DOMAIN broker.active_orders :
            broker.active_orders[id].order_type[1] = "Stop" =>
                /\ id \in DOMAIN broker'.active_orders
                /\ IF StopConditionHolds(broker.active_orders[id], last'.arg.close)
                   THEN IsMarketOf(broker'.active_orders[id], broker.active_orders[id])
                   ELSE broker'.active_orders[id] = broker.active_orders[id]]_vars

\* the i-th event of the call is a submit_order made by an on_execute
\* callback, and nothing later in the call touches that id
SubmittedOnFill(b, i) ==
    /\ i > 1
    /\ b.events[i][1] = "submit"
    /\ b.events[i - 1][1] = "call"
    /\ b.events[i - 1][2] = "on_execute"
    /\ \A j \in i + 1 .. Len(b.events) :
          b.events[j][1] \in {"submit", "cancel"} => b.events[j][2] # b.events[i][2]

\* C5: an order submitted with submit_order from inside an on_execute
\* callback that runs during next(tick) is in the pending set, under its id,
\* when that call returns Ok.
C5_SubmittedOnFillIsPending ==
    [][(last'.op = "next" /\ last'.res = "Ok") =>
         \A i \in 1 .. Len(broker'.events) :
            SubmittedOnFill(broker', i) =>
                /\ broker'.events[i][2] \in DOMAIN broker'.active_orders
                /\ broker'.active_orders[broker'.events[i][2]] = broker'.events[i][3]]_vars

\* what cancel_order must leave alone when the id is not pending
Untouched(b) ==
    <<b.current_cash, b.positions, b.active_orders, b.canceled_orders, b.trades,
      b.datetime, b.previous_ticker>>

\* C6: cancel_order(id) for an id that is not pending returns
\* OrderIdNotFound and leaves cash, positions, the pending set, the canceled
\* log and the clock as they were, whatever came before.
C6_CancelAbsentIsRefused ==
    [][(last'.op = "cancel_order" /\ last'.arg \notin DOMAIN broker.active_orders) =>
         /\ last'.res = "OrderIdNotFound"
         /\ Untouched(broker') = Untouched(broker)
         /\ broker'.events = <<>>]_vars

\* cancel_order has just refused an id that is not pending, on a broker
\* that holds another order, a position and a previous ticker
C6_RefusedAmidOthers ==
    /\ last.op = "cancel_order"
    /\ last.res = "OrderIdNotFound"
    /\ last.arg \notin DOMAIN broker.active_orders
    /\ broker.active_orders # <<>>
    /\ broker.positions # <<>>
    /\ broker.previous_ticker # None

\* C7: an order that cancel_order has removed is never filled by a later
\* tick: next does not execute the order found under an id that was
\* canceled and has not been submitted again.
C7_CanceledIsNeverFilled ==
    [][last'.op = "next" =>
         \A id \in audit.canceled \cap DOMAIN broker.active_orders :
            ~FilledAtAll(broker', broker.active_orders[id])]_vars

SessionGated == {"MOC", "MOO", "LOC", "LOO"}

\* C8, for the ticks after the first: when every gap between consecutive
\* ticks so far is at most 8 hours, next(tick) completes and an order of a
\* session-gated type (MOO, MOC, LOO, LOC) that was pending is not filled by
\* it and is still pending, unchanged, afterwards.
C8_SessionGatedStaysPending ==
    [][(last'.op = "next" /\ broker.previous_ticker # None /\ audit'.widest <= 8) =>
         /\ last'.res # "Panic"
         /\ \A id \in DOMAIN broker.active_orders :
               broker.active_orders[id].order_type[1] \in SessionGated =>
                   /\ ~FilledAtAll(broker', broker.active_orders[id])
                   /\ id \in DOMAIN broker'.active_orders
                   /\ broker'.active_orders[id] = broker.active_orders[id]]_vars

\* next has just executed one order and no more, a Sell against an existing
\* position of its symbol
OneSellAgainst(b, b2) ==
    /\ Len(b2.events) = 1
    /\ b2.events[1][1] = "fill"
    /\ b2.events[1][2].side = "Sell"
    /\ b2.events[1][2].symbol \in DOMAIN b.positions

\* the amount a position is left with by the one Sell
Residue(b, b2) ==
    FSub(b.positions[b2.events[1][2].symbol].amount, b2.events[1][2].quantity)

\* C9 as stated: a Sell fill that brings the amount of an existing long
\* position to within 1e-6 of zero removes the symbol's entry from the
\* position map.
C9_SellToWithinMicroRemoves ==
    [][(last'.op = "next" /\ OneSellAgainst(broker, broker')
            /\ FGt(broker.positions[broker'.events[1][2].symbol].amount, R(0))
            /\ FLe(FAbs(Residue(broker, broker')), Micro)) =>
         broker'.events[1][2].symbol \notin DOMAIN broker'.positions]_vars

\* C9, amended: a Sell fill against an existing position removes the
\* symbol's entry exactly when the amount it leaves is within f32::EPSILON
\* (2^-23, about 1.19e-7) of zero; a residue above that, even one below
\* 1e-6, keeps the entry with the residue as its amount.
C9_SellToWithinEpsilonRemoves ==
    [][(last'.op = "next" /\ OneSellAgainst(broker, broker')) =>
         IF FLe(FAbs(Residue(broker, broker')), EPSILON)
         THEN broker'.events[1][2].symbol \notin DOMAIN broker'.positions
         ELSE /\ broker'.events[1][2].symbol \in DOMAIN broker'.positions
              /\ broker'.positions[broker'.events[1][2].symbol].amount
                     = Residue(broker, broker')]_vars

\* a Sell has just left a position with an amount between f32::EPSILON and
\* 1e-6
C9_ResidueBelowMicroKept ==
    /\ last.op = "next"
    /\ Len(broker.events) = 1
    /\ broker.events[1][1] = "fill"
    /\ broker.events[1][2].side = "Sell"
    /\ "AAPL" \in DOMAIN broker.positions
    /\ FGt(broker.positions["AAPL"].amount, EPSILON)
    /\ FLe(broker.positions["AAPL"].amount, Micro)

\* the run of the end-to-end scenario: closes 100, 105, 95, and a strategy
\* that submits the Market Buy and the Limit Sell on the first ticker and
\* nothing afterwards
EndToEnd ==
    /\ feed[1].close = R(100)
    /\ feed[2].close = R(105)
    /\ feed[3].close = R(95)
    /\ strategy[1] = BuyThenSell
    /\ \A k \in 2 .. Len(feed) : strategy[k] = <<>>

\* the backtest has passed ticker k to next and not yet to on_ticker
AfterNext(k) == nticks = k /\ last.op = "next"

\* the backtest has passed ticker k to next and to on_ticker
AfterTick(k) == nticks = k /\ last.op = "on_ticker"

\* C10 as stated: in the end-to-end run, after tick 1 the cash is 99000 and
\* the position is {amount 10, price 100} with the Limit Sell pending; on
\* tick 2 the Limit Sell fills, giving cash 100050 and no position.
C10_EndToEndAsStated ==
    EndToEnd =>
        /\ AfterTick(1) =>
              /\ broker.current_cash = R(99000)
              /\ "AAPL" \in DOMAIN broker.positions
              /\ broker.positions["AAPL"] = Position("AAPL", R(10), R(100))
              /\ DOMAIN broker.active_orders = {1}
        /\ AfterNext(2) =>
              /\ broker.current_cash = R(100050)
              /\ "AAPL" \notin DOMAIN broker.positions

\* C10, amended: in the end-to-end run, after tick 1 both orders are
\* pending, the cash is still 100000 and there is no position; next on tick
\* 2 fills both at 105 and returns Ok, leaving cash 100000, nothing
\* pending, and either no position or, when the Sell was visited before the
\* Buy, a position of amount 0 whose price is not a number; tick 3 changes
\* nothing.
C10_EndToEndBothFillOnTick2 ==
    EndToEnd =>
        /\ AfterTick(1) =>
              /\ broker.current_cash = R(100000)
              /\ broker.positions = <<>>
              /\ DOMAIN broker.active_orders = {0, 1}
        /\ (AfterNext(2) \/ AfterTick(2) \/ AfterNext(3) \/ AfterTick(3)) =>
              /\ last.res = "Ok"
              /\ broker.current_cash = R(100000)
              /\ broker.active_orders = <<>>
              /\ \/ broker.positions = <<>>
                 \/ /\ DOMAIN broker.positions = {"AAPL"}
                    /\ broker.positions["AAPL"].amount = R(0)
                    /\ IsNaN(broker.positions["AAPL"].price)
        /\ AfterNext(2) =>
              /\ Len(Fills(broker)) = 2
              /\ \A i \in 1 .. 2 : Fills(broker)[i][3] = R(105)

\* the end-to-end run has filled both orders on tick 2 and holds no position
C10_BothFilledNoPosition ==
    /\ EndToEnd
    /\ AfterNext(2)
    /\ Len(Fills(broker)) = 2
    /\ broker.positions = <<>>
    /\ audit.bought = R(1050)
    /\ audit.sold = R(1050)

\* the ranges of the configuration
InRange(initial_cash, commission, margin) ==
    /\ FGe(initial_cash, R(0))
    /\ FGe(commission, <<-1, 10>>)
    /\ FLe(commission, <<1, 10>>)
    /\ FGe(margin, R(0))
    /\ FLe(margin, R(1))

\* C11: the construction of a broker succeeds if and only if initial_cash
\* >= 0, -0.1 <= commission <= 0.1 and 0 <= margin <= 1; when it fails no
\* broker exists, and when it succeeds the broker starts with current cash
\* = initial cash, an empty pending set, no positions and no previous tick.
C11_ConstructsIffInRange ==
    last.op = "new" =>
        /\ last.res = "Ok" <=> InRange(last.arg[1], last.arg[2], last.arg[3])
        /\ last.res # "Ok" => broker = None
        /\ last.res = "Ok" =>
              /\ broker.current_cash = last.arg[1]
              /\ broker.initial_cash = last.arg[1]
              /\ broker.active_orders = <<>>
              /\ broker.positions = <<>>
              /\ broker.previous_ticker = None

\* C12: submit_order(id, order) always succeeds and afterwards the pending
\* set maps id to exactly the given order, an order already pending under
\* the id being replaced without its on_cancel callback running and without
\* being recorded as canceled; every other pending order, the cash, the
\* positions and the clock are unchanged.
C12_SubmitInsertsOrReplaces ==
    [][last'.op = "submit_order" =>
         /\ last'.res = "Ok"
         /\ DOMAIN broker'.active_orders = DOMAIN broker.active_orders \cup {last'.arg[1]}
         /\ broker'.active_orders[last'.arg[1]] = last'.arg[2]
         /\ \A id \in DOMAIN broker.active_orders \ {last'.arg[1]} :
               broker'.active_orders[id] = broker.active_orders[id]
         /\ Events(broker', "call") = <<>>
         /\ Events(broker', "cancel") = <<>>
         /\ broker'.canceled_orders = broker.canceled_orders
         /\ broker'.current_cash = broker.current_cash
         /\ broker'.positions = broker.positions
         /\ broker'.datetime = broker.datetime
         /\ broker'.previous_ticker = broker.previous_ticker]_vars

\* submit_order has just put an order that carries an on_cancel callback
\* beside another pending order, on a broker that holds a position
C12_SubmittedBesideAnother ==
    /\ last.op = "submit_order"
    /\ DOMAIN broker.active_orders = {0, 1}
    /\ broker.active_orders[last.arg[1]] = last.arg[2]
    /\ broker.active_orders[0] # broker.active_orders[1]
    /\ last.arg[2].on_cancel # None
    /\ broker.positions # <<>>

C14_FillsAreLogged ==
    \A i \in 1 .. Len(Fills(broker)) :
        \E id \in DOMAIN broker.trades : broker.trades[id] = Fills(broker)[i][2]

\* C15: an order removed by a successful cancel_order(id) is afterwards in
\* the canceled-orders log under its id.
C15_CanceledIsLogged ==
    (last.op = "cancel_order" /\ last.res = "Ok") =>
        /\ last.arg \in DOMAIN broker.canceled_orders
        /\ broker.canceled_orders[last.arg] = Events(broker, "cancel")[1][3]

\* the i-th event of the call is an on_execute callback that returned an
\* error: one that fails, or one whose cancel_order found nothing to cancel
FailedOnFill(b, i) ==
    /\ b.events[i][1] = "call"
    /\ b.events[i][2] = "on_execute"
    /\ \/ b.events[i][3] = "Fail"
       \/ /\ b.events[i][3] = "CancelOther"
          /\ (i = Len(b.events) \/ b.events[i + 1][1] # "cancel")

\* the error such a callback returned
ErrorOf(callback) ==
    IF callback = "Fail" THEN "OutOfMoneyError" ELSE "OrderIdNotFound"

\* C16: when an on_execute callback returns an error during next(tick) the
\* call stops at once: nothing is filled, converted or called afterwards in
\* that call, and next returns that same error.
C16_CallbackErrorStopsNext ==
    last.op = "next" =>
        \A i \in 1 .. Len(broker.events) :
            FailedOnFill(broker, i) =>
                /\ i = Len(broker.events)
                /\ last.res = ErrorOf(broker.events[i][3])

\* next has just returned the error of the callback of the one order it
\* filled, and a Market order that was pending with it has not been filled
C16_StoppedBeforeAnother ==
    /\ last.op = "next"
    /\ last.res = "OutOfMoneyError"
    /\ Len(Fills(broker)) = 1
    /\ FailedOnFill(broker, Len(broker.events))
    /\ \E id \in DOMAIN broker.active_orders :
          /\ broker.active_orders[id].order_type = Market
          /\ ~FilledAtAll(broker, broker.active_orders[id])

\* the i-th event of the call is a cancel_order, and nothing is submitted
\* under the id later in the call
CanceledForGood(b, i) ==
    /\ b.events[i][1] = "cancel"
    /\ \A j \in i + 1 .. Len(b.events) :
          b.events[j][1] = "submit" => b.events[j][2] # b.events[i][2]

\* C17: an order canceled with cancel_order from inside an on_execute
\* callback that runs during next(tick) is not filled later in that same
\* call and is not in the pending set when the call returns.
C17_CanceledOnFillIsGone ==
    last.op = "next" =>
        \A i \in 1 .. Len(broker.events) :
            CanceledForGood(broker, i) =>
                /\ broker.events[i][2] \notin DOMAIN broker.active_orders
                /\ \A j \in i + 1 .. Len(broker.events) :
                      ~(broker.events[j][1] = "fill" /\ broker.events[j][2] = broker.events[i][3])

\* C18: next, submit_order and cancel_order never return
\* InsufficientFundsForPurchase or InsufficientMargin (no callback returning
\* them itself), and the cash is whatever the fills made it, below zero
\* included: a Buy is applied whatever the cash, the margin and the leverage.
C18_NeverInsufficient ==
    /\ last.res \notin {"InsufficientFundsForPurchase", "InsufficientMargin"}
    /\ (last.op = "next" /\ FLt(broker.current_cash, R(0))) => last.res = "Ok"

\* next has just applied a Buy that costs more than the cash, and more than
\* the cash times the leverage: the cash is below zero
C18_BoughtBeyondTheCash ==
    /\ last.op = "next"
    /\ last.res = "Ok"
    /\ Len(Fills(broker)) = 1
    /\ Fills(broker)[1][2].side = "Buy"
    /\ FGt(FMul(Fills(broker)[1][2].quantity, Fills(broker)[1][3]),
           FMul(broker.initial_cash, broker.leverage))
    /\ FLt(broker.current_cash, R(0))
    /\ "AAPL" \in DOMAIN broker.positions

\* the calls are next on the first item of the feed, on_ticker on the
\* first, next on the second, on_ticker on the second, and so on
InFeedOrder(calls) ==
    \A i \in 1 .. Len(calls) :
        calls[i] = <<IF i % 2 = 1 THEN "next" ELSE "on_ticker", (i + 1) \div 2>>

\* run has so far called next(t_k) and then on_ticker(t_k), once for each
\* tick and in feed order, each with the tick of the feed at that place,
\* and no call has failed; an order submitted in on_ticker(t_k) is
\* filled by next(t_k+1) at the earliest, and a Market order by next(t_k+1)
\* exactly, at the close of t_k+1; until run returns it has something to
\* do, an item to pull from the feed, on_ticker to call or Ok to return, and
\* it returns only once it has made two calls for each tick.
InFeedOrderOncePerTick ==
    /\ last.res = "Ok"
    /\ InFeedOrder(audit.calls)
    /\ Len(audit.calls) <= 2 * Len(feed)
    /\ last.op \in {"next", "on_ticker"} =>
          /\ audit.calls[Len(audit.calls)] = <<last.op, nticks>>
          /\ last.arg = feed[nticks]
    /\ nticks <= Len(feed)
    /\ Len(audit.calls) = IF last.op = "next" THEN 2 * nticks - 1 ELSE 2 * nticks
    /\ last.op = "run" => Len(audit.calls) = 2 * Len(feed)
    /\ last.op # "run" => Pulls \/ ENABLED StrategyOnTicker \/ ENABLED RunReturns
    /\ last.op = "next" =>
          \A i \in 1 .. Len(Fills(broker)) :
              /\ Fills(broker)[i][2].datetime < feed[nticks].datetime
              /\ Fills(broker)[i][2].order_type = Market =>
                    /\ Fills(broker)[i][2].datetime = feed[nticks - 1].datetime
                    /\ Fills(broker)[i][3] = feed[nticks].close

\* C19: over a finite feed with no error, run calls next(t_k) and then
\* on_ticker(t_k) exactly once for each tick, in feed order, and then
\* terminates with the result Ok; an order submitted in on_ticker(t_k) is
\* first evaluated against tick t_k+1.
C19_NextThenOnTickerOncePerTick ==
    /\ InFeedOrderOncePerTick
    /\ last.op = "run" => last = Call("run", <<>>, "Ok")

\* run has returned Ok after a feed on whose first tick the strategy
\* submitted an order, which the next on the second tick filled
C19_RanTheWholeFeed ==
    /\ last = Call("run", <<>>, "Ok")
    /\ nticks = Len(feed)
    /\ Len(audit.calls) = 2 * Len(feed)
    /\ strategy[1] # <<>>
    /\ audit.bought # R(0)

\* C20: run halts on the first error, a malformed item of the feed or an
\* error of next or of on_ticker: whatever run does, it does after calls
\* that all returned Ok, so that no item is passed to the broker or to the
\* strategy after an error, and it does not abort the process: an error is
\* a BacktestError that run returns.
C20_HaltsReturningTheError ==
    [][last.res = "Ok" /\ last'.res # "Panic"]_vars

\* the arithmetic mean of the closes of the period updates from the first-th
Mean(first, period) ==
    FDiv(Sum([k \in 1 .. period |-> feed[first + k - 1].close]), R(period))

\* C21: for an SMA with period p >= 1, after n >= p updates get_value() is
\* the arithmetic mean of the closes of the last p updates, and at(i) for
\* i <= n - p is the mean of the closes of updates i+1 .. i+p.
C21_SMAIsMeanOfLastPeriod ==
    (indicator.period >= 1 /\ nticks >= indicator.period) =>
        /\ SMA_get_value(indicator) = Got(Mean(nticks - indicator.period + 1, indicator.period), "Ok")
        /\ \A i \in 0 .. nticks - indicator.period :
              SMA_at(indicator, i) = Got(Mean(i + 1, indicator.period), "Ok")

\* an SMA of period 3 has slid twice over closes that move its value
C21_SlidTwice ==
    /\ indicator.period = 3
    /\ nticks = 5
    /\ Len(indicator.values) = 3
    /\ indicator.values[1] # indicator.values[2]
    /\ indicator.values[2] # indicator.values[3]
    /\ SMA_get_value(indicator) = Got(Mean(3, 3), "Ok")

\* the number of values an SMA of this period has computed after n updates,
\* as the specification states it
Computed(period, n) == IF n - period + 1 > 0 THEN n - period + 1 ELSE 0

\* C22: for an SMA with period p, get_value() fails with InsufficientData
\* exactly while fewer than p updates have been made, and at(i) fails with
\* IndexOutOfRange exactly when i >= max(0, n - p + 1) after n updates;
\* update never fails.
C22_SMAFailsExactlyBeforePeriod ==
    /\ last.res = "Ok"
    /\ SMA_get_value(indicator).res = "InsufficientData" <=> nticks < indicator.period
    /\ SMA_get_value(indicator).res \in {"Ok", "InsufficientData"}
    /\ \A i \in 0 .. MaxUpdates + 1 :
          /\ SMA_at(indicator, i).res = "IndexOutOfRange" <=> i >= Computed(indicator.period, nticks)
          /\ SMA_at(indicator, i).res \in {"Ok", "IndexOutOfRange"}

\* C22, amended: as C22 for every period p >= 1; an SMA of period 0 has one
\* value for each update, so that its get_value() fails with
\* InsufficientData exactly before the first update and its at(i) fails
\* with IndexOutOfRange exactly when i >= n.
C22_SMAFailsExactlyBeforePeriodOrFirst ==
    /\ last.res = "Ok"
    /\ SMA_get_value(indicator).res = "InsufficientData" <=>
          nticks < (IF indicator.period = 0 THEN 1 ELSE indicator.period)
    /\ SMA_get_value(indicator).res \in {"Ok", "InsufficientData"}
    /\ \A i \in 0 .. MaxUpdates + 1 :
          /\ SMA_at(indicator, i).res = "IndexOutOfRange" <=>
                i >= (IF indicator.period = 0 THEN nticks
                      ELSE Computed(indicator.period, nticks))
          /\ SMA_at(indicator, i).res \in {"Ok", "IndexOutOfRange"}

\* an SMA of period 3 after four updates: two values, at(1) the last of
\* them and at(2) out of range
C22_TwoValuesOfPeriod3 ==
    /\ indicator.period = 3
    /\ nticks = 4
    /\ last = Call("update", feed[4], "Ok")
    /\ SMA_get_value(indicator).res = "Ok"
    /\ SMA_at(indicator, 1) = SMA_get_value(indicator)
    /\ SMA_at(indicator, 2) = Got(None, "IndexOutOfRange")

\* the tickers of these calls came in the order of their dates
NonDecreasing(calls) ==
    \A i \in 1 .. Len(calls) - 1 : calls[i].arg.datetime <= calls[i + 1].arg.datetime

\* the places in the series of the records dated datetime or later
DatedFrom(series, datetime) ==
    {i \in 1 .. Len(series) : series[i] # Malformed /\ series[i].date >= datetime}

\* the earliest record of the series dated datetime or later
Earliest(series, datetime) ==
    series[CHOOSE i \in DatedFrom(series, datetime) :
               \A j \in DatedFrom(series, datetime) : series[i].date <= series[j].date]

\* C23: over updates with non-decreasing ticker dates, several tickers on
\* one date included, update(ticker) returns Ok and makes get_value() the
\* rate of the earliest record of the series dated ticker.datetime or
\* later; when the series has no such record, update returns
\* InsufficientData and get_value() is left as it was.
C23_EFFRIsEarliestRateFromDate ==
    [][(last'.op = "update" /\ NonDecreasing(audit'.calls)) =>
          IF DatedFrom(indicator.series, last'.arg.datetime) # {}
          THEN /\ last'.res = "Ok"
               /\ EFFR_get_value(indicator') =
                     Got(Earliest(indicator.series, last'.arg.datetime).dff, "Ok")
          ELSE /\ last'.res = "InsufficientData"
               /\ EFFR_get_value(indicator') = EFFR_get_value(indicator)]_vars

\* C24: an update whose ticker is dated before that of a previous
\* successful update succeeds and leaves get_value() exactly as it was.
C24_EFFREarlierDateKeepsValue ==
    [][(/\ last'.op = "update"
        /\ \E i \in 1 .. Len(audit.calls) :
              /\ audit.calls[i].res = "Ok"
              /\ last'.arg.datetime < audit.calls[i].arg.datetime) =>
          /\ last'.res = "Ok"
          /\ EFFR_get_value(indicator') = EFFR_get_value(indicator)]_vars

\* the Limit order a StopLimit order is to become: at its limit, with the
\* same symbol, quantity, side and callbacks
IsLimitOf(converted, order) ==
    /\ converted.order_type = Limit(order.order_type[3])
    /\ converted.symbol = order.symbol
    /\ converted.quantity = order.quantity
    /\ converted.side = order.side
    /\ converted.on_execute = order.on_execute
    /\ converted.on_cancel = order.on_cancel

\* the condition of a StopLimit order, bounds inclusive, as the
\* specification states it
StopLimitConditionHolds(order, close) ==
    IF order.side = "Buy"
    THEN FGe(close, order.order_type[2]) /\ FLe(close, order.order_type[3])
    ELSE FLe(close, order.order_type[2]) /\ FGe(close, order.order_type[3])

\* C25: after a next(tick) that returns Ok, a StopLimit order that was
\* pending is, under the same id, a Limit order at its limit with the same
\* symbol, quantity, side and callbacks if the tick is between stop and
\* limit (Buy: stop <= close <= limit, Sell: limit <= close <= stop, bounds
\* inclusive), and is pending unchanged on every other tick; it is not
\* filled by that call, which changes neither cash nor positions when no
\* other order is pending.
C25_StopLimitBecomesLimit ==
    [][(last'.op = "next" /\ last'.res = "Ok") =>
         \A id \in DOMAIN broker.active_orders :
            broker.active_orders[id].order_type[1] = "StopLimit" =>
                /\ id \in DOMAIN broker'.active_orders
                /\ IF StopLimitConditionHolds(broker.active_orders[id], last'.arg.close)
                   THEN IsLimitOf(broker'.active_orders[id], broker.active_orders[id])
                   ELSE broker'.active_orders[id] = broker.active_orders[id]
                /\ ~FilledAtAll(broker', broker.active_orders[id])
                /\ DOMAIN broker.active_orders = {id} =>
                      /\ broker'.current_cash = broker.current_cash
                      /\ broker'.positions = broker.positions]_vars

\* the i-th event of a next is the submit_order of the Market order a Stop
\* order became: its stop condition held on the tick
StopFired(b, i) ==
    /\ b.events[i][1] = "submit"
    /\ b.events[i][3].order_type = Market

\* the call has run the on_execute of the order, if it has one
RanOnExecute(b, order) ==
    order.on_execute # None =>
        \E i \in 1 .. Len(b.events) :
            /\ b.events[i][1] = "call"
            /\ b.events[i][2] = "on_execute"
            /\ b.events[i][3] = order.on_execute[1]

\* C26: a Stop order whose stop condition holds on tick k and which is
\* not canceled is filled no later than tick k+1: when next(tick k+1)
\* follows next(tick k) and returns, the order has been filled, its
\* quantity applied to cash and positions, and its on_execute has run.
C26_StopFilledByNextTick ==
    [][(last.op = "next" /\ last.res = "Ok" /\ last'.op = "next" /\ last'.res = "Ok") =>
         \A i \in 1 .. Len(broker.events) :
            StopFired(broker, i) =>
                /\ \/ FilledAtAll(broker, broker.events[i][3])
                   \/ FilledAtAll(broker', broker.events[i][3])
                /\ RanOnExecute(broker, broker.events[i][3])
                      \/ RanOnExecute(broker', broker.events[i][3])]_vars

\* the session test as the specification states it: no previous tick, or
\* the current one comes more than 8 hours after it
NewSession(previous, current) ==
    previous = None \/ current.datetime - previous[1].datetime > 8

\* C27: the session test used during next(current) is true exactly when
\* no previous tick is stored or current.datetime - previous.datetime > 8
\* hours, the previous tick being the one passed to the last next that
\* returned Ok; so a pending plain LimitOnOpen order whose limit condition
\* holds is filled by a next that returns Ok exactly on such a tick, and
\* not on one that comes exactly 8 hours after the previous.
C27_NewSessionIffGapOver8Hours ==
    [][last'.op = "next" =>
         /\ broker.previous_ticker = audit.passed
         /\ next_date([broker EXCEPT !.datetime = last'.arg.datetime])
               <=> NewSession(audit.passed, last'.arg)
         /\ last'.res = "Ok" =>
               \A id \in DOMAIN broker.active_orders :
                  (/\ PlainOf(broker.active_orders[id], "LOO")
                   /\ LimitConditionHolds(broker.active_orders[id], last'.arg.close)) =>
                      (FilledAtAll(broker', broker.active_orders[id])
                          <=> NewSession(audit.passed, last'.arg))]_vars

\* a tick has come exactly 8 hours after the one before, and next has left
\* pending a LimitOnOpen Buy whose limit the close does not exceed
C27_EightHoursIsNoNewSession ==
    /\ last.op = "next"
    /\ last.res = "Ok"
    /\ nticks = 2
    /\ audit.widest = 8
    /\ \E id \in DOMAIN broker.active_orders :
          /\ PlainOf(broker.active_orders[id], "LOO")
          /\ broker.active_orders[id].side = "Buy"
          /\ LimitConditionHolds(broker.active_orders[id], last.arg.close)

\* C28 as stated: on a new-session tick a pending MarketOnClose order is
\* filled at the previous tick's close and a pending MarketOnOpen order at
\* the current tick's close, and both leave the pending set.
C28_SessionOrdersFillOnNewSession ==
    [][(last'.op = "next" /\ NewSession(broker.previous_ticker, last'.arg)) =>
         \A id \in DOMAIN broker.active_orders :
            /\ PlainOf(broker.active_orders[id], "MOO") =>
                  /\ Filled(broker', broker.active_orders[id], last'.arg.close)
                  /\ id \notin DOMAIN broker'.active_orders
            /\ PlainOf(broker.active_orders[id], "MOC") =>
                  /\ broker.previous_ticker # None
                  /\ Filled(broker', broker.active_orders[id], broker.previous_ticker[1].close)
                  /\ id \notin DOMAIN broker'.active_orders]_vars

\* C28, amended: by a next that returns Ok on a new-session tick, a
\* pending MarketOnOpen order is filled at the current tick's close and
\* leaves the pending set; a pending
\* MarketOnClose order is filled at the previous tick's close and leaves
\* the pending set when a previous tick is stored, and on the first tick,
\* which has none, it is not filled and stays pending unchanged.
C28_SessionOrdersFillOnNewSessionAfterFirst ==
    [][(/\ last'.op = "next"
        /\ last'.res = "Ok"
        /\ NewSession(broker.previous_ticker, last'.arg)) =>
         /\ \A id \in DOMAIN broker.active_orders :
               /\ PlainOf(broker.active_orders[id], "MOO") =>
                     /\ Filled(broker', broker.active_orders[id], last'.arg.close)
                     /\ id \notin DOMAIN broker'.active_orders
               /\ PlainOf(broker.active_orders[id], "MOC") =>
                     IF broker.previous_ticker # None
                     THEN /\ Filled(broker', broker.active_orders[id],
                                    broker.previous_ticker[1].close)
                          /\ id \notin DOMAIN broker'.active_orders
                     ELSE /\ ~FilledAtAll(broker', broker.active_orders[id])
                          /\ id \in DOMAIN broker'.active_orders
                          /\ broker'.active_orders[id] = broker.active_orders[id]]_vars

\* on the first tick of a new session, whose close is not that of the tick
\* before, next has filled a MarketOnClose order at the close of the tick
\* before and a MarketOnOpen order at its own, and nothing is pending
C28_FilledAtBothCloses ==
    /\ last.op = "next"
    /\ last.res = "Ok"
    /\ nticks = 2
    /\ audit.widest = 9
    /\ broker.active_orders = <<>>
    /\ \E i, j \in 1 .. Len(broker.events) :
          /\ broker.events[i][1] = "fill"
          /\ broker.events[i][2].order_type = MOC
          /\ broker.events[i][3] # last.arg.close
          /\ broker.events[j][1] = "fill"
          /\ broker.events[j][2].order_type = MOO
          /\ broker.events[j][3] = last.arg.close

\* the Limit inequality of an order on the price of a fill
WithinLimit(order, price) ==
    IF order.side = "Buy"
    THEN FLe(price, order.order_type[2])
    ELSE FGe(price, order.order_type[2])

\* C29: a LimitOnClose order is filled at the previous tick's close and
\* only when that close satisfies its Limit inequality (a Buy at limit P
\* never above P, a Sell at P never below P); a LimitOnOpen order is
\* filled at the current tick's close and only when that close satisfies
\* the inequality.
C29_SessionLimitAppliesToFillPrice ==
    [][last'.op = "next" =>
         \A i \in 1 .. Len(Fills(broker')) :
            /\ Fills(broker')[i][2].order_type[1] = "LOC" =>
                  /\ broker.previous_ticker # None
                  /\ Fills(broker')[i][3] = broker.previous_ticker[1].close
                  /\ WithinLimit(Fills(broker')[i][2], Fills(broker')[i][3])
            /\ Fills(broker')[i][2].order_type[1] = "LOO" =>
                  /\ Fills(broker')[i][3] = last'.arg.close
                  /\ WithinLimit(Fills(broker')[i][2], Fills(broker')[i][3])]_vars

\* C30: a next(tick) called with a MarketOnOpen order pending on a tick
\* that is not a new-session tick completes normally, with every pending
\* MarketOnOpen order still pending unchanged and not filled.
C30_MarketOnOpenWaitsForSession ==
    [][(/\ last'.op = "next"
        /\ ~NewSession(broker.previous_ticker, last'.arg)
        /\ \E id \in DOMAIN broker.active_orders :
              broker.active_orders[id].order_type = MOO) =>
          /\ last'.res = "Ok"
          /\ \A id \in DOMAIN broker.active_orders :
                broker.active_orders[id].order_type = MOO =>
                   /\ ~FilledAtAll(broker', broker.active_orders[id])
                   /\ id \in DOMAIN broker'.active_orders
                   /\ broker'.active_orders[id] = broker.active_orders[id]]_vars

\* the condition on which an order is to be acted on by next(current), as
\* the specification states it: the inequality of its type on the close,
\* and for the session-gated types a new session, with a previous tick to
\* fill against for the types that fill at its close
Triggers(order, previous, current) ==
    LET kind == order.order_type[1]
    IN  CASE kind = "Market" -> TRUE
          [] kind = "Limit" -> LimitConditionHolds(order, current.close)
          [] kind = "Stop" -> StopConditionHolds(order, current.close)
          [] kind = "StopLimit" -> StopLimitConditionHolds(order, current.close)
          [] kind = "MOO" -> NewSession(previous, current)
          [] kind = "MOC" -> NewSession(previous, current) /\ previous # None
          [] kind = "LOO" ->
               NewSession(previous, current) /\ WithinLimit(order, current.close)
          [] kind = "LOC" ->
               /\ NewSession(previous, current)
               /\ previous # None
               /\ WithinLimit(order, previous[1].close)

\* C31: next(tick) returns, leaving in the pending set, with every field
\* unchanged, each order whose trigger condition does not hold on the
\* tick; when no pending order triggers, it leaves cash, positions and the
\* pending set as they were.
C31_UntriggeredOrdersAreKept ==
    [][last'.op = "next" =>
         /\ last'.res # "Panic"
         /\ \A id \in DOMAIN broker.active_orders :
               ~Triggers(broker.active_orders[id], broker.previous_ticker, last'.arg) =>
                  /\ id \in DOMAIN broker'.active_orders
                  /\ broker'.active_orders[id] = broker.active_orders[id]
         /\ (\A id \in DOMAIN broker.active_orders :
                ~Triggers(broker.active_orders[id], broker.previous_ticker, last'.arg)) =>
               /\ broker'.current_cash = broker.current_cash
               /\ broker'.positions = broker.positions
               /\ broker'.active_orders = broker.active_orders]_vars

\* the entry of a symbol in the position map: its amount, or None
Entry(positions, symbol) ==
    IF symbol \in DOMAIN positions THEN Some(positions[symbol].amount) ELSE None

\* the entry after an event: a Buy's fill adds its quantity to what is
\* held, a Sell's takes it away, and the entry goes when a Sell leaves it
\* within f32::EPSILON of zero; a Sell with no entry opens one of -quantity
Folded(entry, e, symbol) ==
    IF e[1] # "fill" \/ e[2].symbol # symbol THEN entry
    ELSE IF e[2].side = "Buy"
    THEN Some(FAdd(IF entry = None THEN R(0) ELSE entry[1], e[2].quantity))
    ELSE IF entry = None THEN Some(FNeg(e[2].quantity))
    ELSE IF FGt(FAbs(FSub(entry[1], e[2].quantity)), EPSILON)
    THEN Some(FSub(entry[1], e[2].quantity))
    ELSE None

RECURSIVE EntryAt(_, _, _, _)
\* the entry of the symbol after the first i events of a call that began
\* with entry
EntryAt(entry, events, i, symbol) ==
    IF i = 0 THEN entry
    ELSE Folded(EntryAt(entry, events, i - 1, symbol), events[i], symbol)

\* cash after an event: a Buy's fill debits quantity * price, a Sell's
\* credits it
Settled(cash, e) ==
    IF e[1] # "fill" THEN cash
    ELSE IF e[2].side = "Buy" THEN FSub(cash, FMul(e[2].quantity, e[3]))
    ELSE FAdd(cash, FMul(e[2].quantity, e[3]))

RECURSIVE CashAt(_, _, _)
\* the cash after the first i events of a call that began with cash
CashAt(cash, events, i) ==
    IF i = 0 THEN cash ELSE Settled(CashAt(cash, events, i - 1), events[i])

\* the i-th event is an on_execute that observes the fill before it
\* applied to the broker b the call began with, at the clock of the ticker
ObservesItsFill(b, events, i, ticker) ==
    /\ i > 1
    /\ events[i][1] = "call"
    /\ events[i][2] = "on_execute"
    /\ events[i - 1][1] = "fill"
    /\ events[i - 1][2].on_execute = Some(events[i][3])
    /\ events[i][4].datetime = ticker.datetime
    /\ events[i][4].current_cash = CashAt(b.current_cash, events, i)
    /\ Entry(events[i][4].positions, events[i - 1][2].symbol) =
          EntryAt(Entry(b.positions, events[i - 1][2].symbol), events, i,
                  events[i - 1][2].symbol)

\* C32: an order's on_execute runs exactly once per fill of the order and
\* after the fill's changes: each fill of an order with a callback is
\* followed at once by one call of it, each call follows such a fill, and
\* the broker the callback observes has the cash and the position of the
\* fill applied and the clock of the tick being processed.
C32_OnExecuteOnceAfterTheFill ==
    [][last'.op = "next" =>
         \A i \in 1 .. Len(broker'.events) :
            /\ (/\ broker'.events[i][1] = "fill"
                /\ broker'.events[i][2].on_execute # None) =>
                  /\ i < Len(broker'.events)
                  /\ ObservesItsFill(broker, broker'.events, i + 1, last'.arg)
            /\ (broker'.events[i][1] = "call" /\ broker'.events[i][2] = "on_execute") =>
                  ObservesItsFill(broker, broker'.events, i, last'.arg)]_vars

\* one next has filled two orders that have an on_execute, on a tick after
\* the first, and each callback saw another cash
C32_TwoCallbacksInOneNext ==
    /\ last.op = "next"
    /\ broker.datetime > 1
    /\ \E i, j \in 1 .. Len(broker.events) :
          /\ i < j
          /\ broker.events[i][1] = "call" /\ broker.events[i][2] = "on_execute"
          /\ broker.events[j][1] = "call" /\ broker.events[j][2] = "on_execute"
          /\ broker.events[i][4].current_cash # broker.events[j][4].current_cash
          /\ broker.events[j][4].datetime = broker.datetime

\* C33: in every reachable state no position entry has an amount whose
\* magnitude is within epsilon of zero, so none carries an average price
\* that is the result of a division by a zero amount.
C33_NoPositionOfAmountZero ==
    \A symbol \in DOMAIN broker.positions :
        /\ FGt(FAbs(broker.positions[symbol].amount), EPSILON)
        /\ ~IsNaN(broker.positions[symbol].price)

\* the broker that differs from b only in the parameters new stores:
\* commission, leverage = 1 / margin, exclusive_orders, hedging
Configured(b, p) ==
    [b EXCEPT !.commission = p[1], !.leverage = FDiv(R(1), p[2]),
              !.exclusive_orders = p[3], !.hedging = p[4]]

\* parameters new accepts: <<commission, margin, exclusive_orders, hedging>>
Configurations ==
    {<<R(0), R(0), TRUE, FALSE>>, <<<<-1, 10>>, R(1), FALSE, TRUE>>}

\* the result of the call of l on the broker b, next visiting the pending
\* orders in the given order
Outcome(b, l, visiting) ==
    CASE l.op = "next" -> next(Began(b), l.arg, visiting)
      [] l.op = "submit_order" -> submit_order(Began(b), l.arg[1], l.arg[2])
      [] l.op = "cancel_order" -> cancel_order(Began(b), l.arg)

\* two results are the same result with equal cash, positions and pending
\* sets
SameBooks(r1, r2) ==
    /\ r1.res = r2.res
    /\ r1.b.current_cash = r2.b.current_cash
    /\ r1.b.positions = r2.b.positions
    /\ r1.b.active_orders = r2.b.active_orders

OpenClose(open, close, datetime) ==
    [open |-> open, close |-> close, datetime |-> datetime]

\* RSI::new
RSI(period, smooth) ==
    [period |-> period, smooth |-> smooth, gains |-> <<>>, losses |-> <<>>,
     previous_average_gain |-> R(0), previous_average_loss |-> R(0),
     values |-> <<>>]

\* let current_gain = if ticker.close > ticker.open { close - open } else { 0.0 }
current_gain(ticker) ==
    IF FGt(ticker.close, ticker.open) THEN FSub(ticker.close, ticker.open) ELSE R(0)

\* let current_loss = if ticker.close < ticker.open { open - close } else { 0.0 }
current_loss(ticker) ==
    IF FLt(ticker.close, ticker.open) THEN FSub(ticker.open, ticker.close) ELSE R(0)

\* 100.0 - (100.0 / (1.0 + (average_gain / average_loss)))
step_one(average_gain, average_loss) ==
    FSub(R(100), FDiv(R(100), FAdd(R(1), FDiv(average_gain, average_loss))))

\* previous_average * (self.period - 1) as f32: the subtraction is of u32,
\* and of period 0 it wraps to 2^32 - 1, as f32 2^32 = 65536 * 65536, in a
\* build without overflow checks
TimesPeriodLess1(previous_average, period) ==
    IF period > 0 THEN FMul(previous_average, R(period - 1))
    ELSE FMul(FMul(previous_average, R(65536)), R(65536))

\* 100.0 - (100.0 / (1.0 + ((previous_average_gain * (period - 1) + current_gain)
\*                          / (previous_average_loss * (period - 1) + current_loss))))
step_two(r, ticker) ==
    step_one(FAdd(TimesPeriodLess1(r.previous_average_gain, r.period),
                  current_gain(ticker)),
             FAdd(TimesPeriodLess1(r.previous_average_loss, r.period),
                  current_loss(ticker)))

\* self.values.push(value); the averages become the previous averages
Pushed(r, value, average_gain, average_loss) ==
    Ret([r EXCEPT !.values = Append(@, value),
                  !.previous_average_gain = average_gain,
                  !.previous_average_loss = average_loss], "Ok")

\* RSI::update; build is "debug" where the arithmetic of integers is
\* checked for overflow, and there self.period - 1 of period 0 panics
RSI_update(r, ticker, build) ==
    IF Len(r.values) < r.period
    THEN Ret([r EXCEPT !.gains = Append(@, current_gain(ticker)),
                       !.losses = Append(@, current_loss(ticker))], "Ok")
    ELSE IF r.smooth /\ r.period = 0 /\ build = "debug"
    THEN Ret(r, "Panic")
    ELSE Pushed(r,
                IF r.smooth
                THEN step_two(r, ticker)
                ELSE step_one(FDiv(Sum(r.gains), R(r.period)),
                              FDiv(Sum(r.losses), R(r.period))),
                FDiv(Sum(r.gains), R(r.period)),
                FDiv(Sum(r.losses), R(r.period)))

\* RSI::get_value
RSI_get_value(r) ==
    IF r.values # <<>>
    THEN Got(r.values[Len(r.values)], "Ok")
    ELSE Got(None, "InsufficientData")

\* RSI::at (index counts from 0)
RSI_at(r, index) ==
    IF index < Len(r.values)
    THEN Got(r.values[index + 1], "Ok")
    ELSE Got(None, "IndexOutOfRange")

\* the tickers: a gain, a greater gain, a loss, neither
OpenCloses == {<<R(1), R(2)>>, <<R(1), R(4)>>, <<R(2), R(1)>>, <<R(1), R(1)>>}

\* an RSI of some period, smoothed or not, in a build that checks the
\* arithmetic of integers or in one that does not
InitRSI ==
    /\ indicator \in {RSI(period, smooth) : period \in 0 .. MaxPeriod, smooth \in BOOLEAN}
    /\ strategy \in {"debug", "release"}
    /\ broker = None
    /\ last = Call("new", <<>>, "Ok")
    /\ nticks = 0
    /\ feed = <<>>
    /\ audit = Unaudited

\* rsi.update(&ticker) on one more ticker, kept in feed
RSIUpdate(oc) ==
    /\ nticks < MaxUpdates
    /\ last.res = "Ok"
    /\ indicator' = RSI_update(indicator, OpenClose(oc[1], oc[2], nticks + 1), strategy).b
    /\ last' = Call("update", OpenClose(oc[1], oc[2], nticks + 1),
                    RSI_update(indicator, OpenClose(oc[1], oc[2], nticks + 1), strategy).res)
    /\ feed' = Append(feed, OpenClose(oc[1], oc[2], nticks + 1))
    /\ nticks' = nticks + 1
    /\ UNCHANGED <<broker, strategy, audit>>

NextRSI == \E oc \in OpenCloses : RSIUpdate(oc)

SpecRSI == InitRSI /\ [][NextRSI]_vars

\* C35: an RSI of period p that has been updated more than p times has a
\* value: get_value() returns one and at(0) succeeds.
C35_RSIHasAValueAfterThePeriod ==
    (last.res = "Ok" /\ nticks > indicator.period) =>
        /\ RSI_get_value(indicator).res = "Ok"
        /\ RSI_at(indicator, 0).res = "Ok"

\* how many of the events are fills of the order
FillsOf(events, order) ==
    Cardinality({i \in 1 .. Len(events) :
                    events[i][1] = "fill" /\ events[i][2] = order})

\* how many times the order was submitted: the ids it is pending under,
\* and the submit_order calls of the events that passed it
Submissions(active_orders, events, order) ==
    Cardinality({id \in DOMAIN active_orders : active_orders[id] = order})
    + Cardinality({i \in 1 .. Len(events) :
                      events[i][1] = "submit" /\ events[i][3] = order})

\* the next after a next that returned an error: the caller calls next
\* again, with the ticker of the following hour
Again(b, ticker, visiting) ==
    next(Began(b), Ticker(ticker.close, ticker.datetime + 1), visiting)

\* C36: each submitted order is filled at most once, also when next
\* returned an error from a callback and the caller calls next again: over
\* the two calls an order is filled no more often than it was submitted.
C36_FilledAtMostOnce ==
    [][(last'.op = "next" /\ last'.res \notin {"Ok", "Panic"}) =>
         \A visiting \in Orderings(DOMAIN broker'.active_orders) :
            \A order \in {broker.active_orders[id] : id \in DOMAIN broker.active_orders} :
               FillsOf(broker'.events \o Again(broker', last'.arg, visiting).b.events,
                       order)
                  <= Submissions(broker.active_orders,
                                 broker'.events
                                    \o Again(broker', last'.arg, visiting).b.events,
                                 order)]_vars

\* C37: the outcome of next(tick) does not depend on the order in which the
\* pending orders are visited: with several pending orders, none with a
\* callback, every visiting order yields the cash, the position map and
\* the pending set that this call yielded.
C37_VisitingOrderChangesNothing ==
    [][(/\ last'.op = "next"
        /\ Cardinality(DOMAIN broker.active_orders) > 1
        /\ \A id \in DOMAIN broker.active_orders :
              /\ broker.active_orders[id].on_execute = None
              /\ broker.active_orders[id].on_cancel = None) =>
         \A visiting \in Orderings(DOMAIN broker.active_orders) :
            SameBooks(Outcome(broker, last', visiting), [b |-> broker', res |-> last'.res])]_vars

\* the call filled one order of the symbol, a Sell, and the symbol had no
\* position before it
OpenedShort(b, events, symbol) ==
    /\ symbol \notin DOMAIN b.positions
    /\ \E i \in 1 .. Len(events) :
          /\ events[i][1] = "fill"
          /\ events[i][2].symbol = symbol
          /\ events[i][2].side = "Sell"
          /\ \A j \in 1 .. Len(events) :
                (events[j][1] = "fill" /\ events[j][2].symbol = symbol) => j = i

\* the position a Sell of the call opened: -quantity at the price of the fill
ShortOf(events, symbol) ==
    LET i == CHOOSE i \in 1 .. Len(events) :
                 events[i][1] = "fill" /\ events[i][2].symbol = symbol
    IN  Position(symbol, FNeg(events[i][2].quantity), events[i][3])

\* C38 as stated: in every reachable state the amount of the position of a
\* symbol is the net signed quantity of all the fills of the symbol, no
\* position standing for a net quantity of zero.
C38_AmountIsNetQuantityOfFills ==
    \A symbol \in Symbols :
        audit.ledger[symbol].amount =
            IF symbol \in DOMAIN broker.positions
            THEN broker.positions[symbol].amount ELSE R(0)

\* C38: the amount of the position of a symbol is the net signed quantity
\* of the fills of the symbol since its entry was last deleted, no entry
\* standing for zero: each fill of a next adds its signed quantity to the
\* amount held, except that a Sell leaving a magnitude within f32::EPSILON
\* deletes the entry, residue and all; and a Sell on a symbol with no
\* position opens a position of -quantity at the price it is filled at.
C38_AmountIsNetQuantitySinceDeleted ==
    [][last'.op = "next" =>
         \A symbol \in Symbols :
            /\ Entry(broker'.positions, symbol) =
                  EntryAt(Entry(broker.positions, symbol), broker'.events,
                          Len(broker'.events), symbol)
            /\ OpenedShort(broker, broker'.events, symbol) =>
                  broker'.positions[symbol] = ShortOf(broker'.events, symbol)]_vars

\* a Sell has left a residue within f32::EPSILON and the entry is gone,
\* though the fills of the symbol do not net to zero
C38_ResidueDeleted ==
    /\ last.op = "next"
    /\ "AAPL" \notin DOMAIN broker.positions
    /\ audit.ledger["AAPL"].amount # R(0)
    /\ FLe(FAbs(audit.ledger["AAPL"].amount), EPSILON)

\* C39: a MarketOnClose or LimitOnClose order pending when the very first
\* tick is processed, no previous tick being stored, is not filled on that
\* tick and stays pending unchanged; a next fills such an order only on a
\* new-session tick that has a previous tick.
C39_OnCloseOrdersWaitForAPreviousTick ==
    [][last'.op = "next" =>
         \A id \in DOMAIN broker.active_orders :
            broker.active_orders[id].order_type[1] \in {"MOC", "LOC"} =>
               /\ broker.previous_ticker = None =>
                     /\ ~FilledAtAll(broker', broker.active_orders[id])
                     /\ id \in DOMAIN broker'.active_orders
                     /\ broker'.active_orders[id] = broker.active_orders[id]
               /\ FilledAtAll(broker', broker.active_orders[id]) =>
                     /\ broker.previous_ticker # None
                     /\ NewSession(broker.previous_ticker, last'.arg)]_vars

\* the first tick has been processed and nothing was filled, and a
\* MarketOnClose order, or a LimitOnClose order whose limit its close
\* satisfies, is pending after it
C39_PendingAfterTheFirstTick ==
    /\ last.op = "next"
    /\ last.res = "Ok"
    /\ nticks = 1
    /\ Fills(broker) = <<>>
    /\ \E id \in DOMAIN broker.active_orders :
          \/ broker.active_orders[id].order_type[1] = "MOC"
          \/ /\ broker.active_orders[id].order_type[1] = "LOC"
             /\ LimitHolds(broker.active_orders[id].side, last.arg.close,
                           broker.active_orders[id].order_type[2])

====
